---- MODULE Spec2Model ----
(***************************************************************************)
(* Controller registry of revel (controller_type.go): AddControllerType,   *)
(* ControllerType.Method, the hook discovery of ControllerTypeEvents.check, *)
(* ControllerFieldPath.Invoke and findControllers.                          *)
(*                                                                          *)
(* Strings are tuples of one-character strings, so that strings.ToLower is  *)
(* a computation.  Go slices of int are headers (arr, len, cap) over a heap *)
(* of backing arrays, so that append shares or reallocates the array as the *)
(* gc runtime does.  reflect.Type and reflect.Value are modelled over a     *)
(* table of declared types.                                                 *)
(***************************************************************************)
EXTENDS Integers, Sequences, FiniteSets, TLC

VARIABLES c, controllerTypeList, nextAddr, last

vars == <<c, controllerTypeList, nextAddr, last>>

\* F applied to the value of v, v being evaluated once.
Bind(v, F(_)) == CHOOSE y \in { F(x) : x \in {v} } : TRUE

\* ------------------------------------------------------------ bounds

\* Calls of AddControllerType in one run of the registry specification.
MaxCalls == 3

\* Calls of AddControllerType in one run of the discovery specification.
MaxDiscCalls == 1

\* Length of the method list handed to AddControllerType.
MaxMethods == 2

\* Length of the name handed to ControllerType.Method.
MaxNameLen == 2

\* ------------------------------------------------------------ strings

UpperCase == <<"A", "B", "C", "D", "E", "F", "G", "H", "I", "J", "K", "L", "M",
               "N", "O", "P", "Q", "R", "S", "T", "U", "V", "W", "X", "Y", "Z">>

LowerCase == <<"a", "b", "c", "d", "e", "f", "g", "h", "i", "j", "k", "l", "m",
               "n", "o", "p", "q", "r", "s", "t", "u", "v", "w", "x", "y", "z">>

IsUpper(ch) == \E i \in 1..Len(UpperCase) : UpperCase[i] = ch

ToLowerChar(ch) ==
    IF IsUpper(ch)
    THEN LowerCase[CHOOSE i \in 1..Len(UpperCase) : UpperCase[i] = ch]
    ELSE ch

\* strings.ToLower
ToLower(s) == [i \in 1..Len(s) |-> ToLowerChar(s[i])]

\* Byte order of the letters: every upper-case letter is below every lower-case one.
Ord(ch) ==
    IF IsUpper(ch)
    THEN CHOOSE i \in 1..Len(UpperCase) : UpperCase[i] = ch
    ELSE Len(UpperCase) + (CHOOSE i \in 1..Len(LowerCase) : LowerCase[i] = ch)

\* s < t as Go compares strings: at the first place where they differ s has
\* the lower byte, or s ends there and t does not.
StrLess(s, t) ==
    \E i \in 1..Len(t) :
        /\ i <= Len(s) + 1
        /\ \A j \in 1..(i - 1) : s[j] = t[j]
        /\ (i = Len(s) + 1 \/ Ord(s[i]) < Ord(t[i]))

\* The names the switch of check compares against.
sBefore == <<"b", "e", "f", "o", "r", "e">>
sAfter == <<"a", "f", "t", "e", "r">>
sPanic == <<"p", "a", "n", "i", "c">>
sFinally == <<"f", "i", "n", "a", "l", "l", "y">>

\* ------------------------------------------------------------ declared types

\* A reflect.Type: the named type t, or the pointer to it.
Val(t) == [ptr |-> FALSE, t |-> t]
Ptr(t) == [ptr |-> TRUE, t |-> t]

NoType == [ptr |-> FALSE, t |-> "-"]

\* A struct field: embedded (its name is the exported type name), named and
\* exported, or named and unexported.
Embed(ref) == [anon |-> TRUE, exported |-> TRUE, typ |-> ref]
Field(ref) == [anon |-> FALSE, exported |-> TRUE, typ |-> ref]
Hidden(ref) == [anon |-> FALSE, exported |-> FALSE, typ |-> ref]

\* A declared method: its name, whether its receiver is the pointer, the
\* number of its results and its second result's type.
M(name, recvPtr, numOut, out1) ==
    [name |-> name, recvPtr |-> recvPtr, numOut |-> numOut, out1 |-> out1]

Struct(name, fields, methods) ==
    [name |-> name, kind |-> "struct", fields |-> fields, methods |-> methods]

Basic(name, kind) ==
    [name |-> name, kind |-> kind, fields |-> <<>>, methods |-> {}]

\* The types an application declares.  Controller is revel.Controller and
\* CtlAlias an alias of it (type CtlAlias = Controller), so that a struct can
\* embed *Controller twice under two field names.
\*   Plain    struct{ N MyInt }
\*   App      struct{ *Controller }
\*   Base     struct{ *Controller }       Before (Base), After (*Base), Finally (*Base)
\*   Nested   struct{ Base; N MyInt }     Before (*Nested), After (Nested),
\*                                        Render (Nested, not a hook), Panic (one result)
\*   Two      struct{ *Controller; *CtlAlias }
\*   Pair     struct{ App; Base }
\*   Degen    struct{ MyInt; Iface; *Controller }
\*   Named    struct{ B Base }
\*   Private  struct{ b Base }
\*   PtrEmbed struct{ *Base }
\*   PtrInt   struct{ *MyInt; *Controller }
\*   L0{L1}  L1{L2}  L2{L3}  L3{ *Controller; *CtlAlias; D1; D2 }
\*   D1       struct{}   BEFORE (D1), Before (D1), After (*D1)
\*   D2       struct{}   Before (*D2), Finally (D2), after (D2, unexported)
Types ==
    [ Controller |-> Struct(<<"C">>, <<>>, {}),
      MyInt |-> Basic(<<"I">>, "int"),
      Iface |-> Basic(<<"F">>, "interface"),
      Plain |-> Struct(<<"B">>, <<Field(Val("MyInt"))>>, {}),
      App |-> Struct(<<"A", "b">>, <<Embed(Ptr("Controller"))>>, {}),
      Base |-> Struct(<<"B">>, <<Embed(Ptr("Controller"))>>,
                 { M(<<"B", "e", "f", "o", "r", "e">>, FALSE, 2, Val("Base")),
                   M(<<"A", "f", "t", "e", "r">>, TRUE, 2, Ptr("Base")),
                   M(<<"F", "i", "n", "a", "l", "l", "y">>, TRUE, 2, Ptr("Base")) }),
      Nested |-> Struct(<<"N">>, <<Embed(Val("Base")), Field(Val("MyInt"))>>,
                 { M(<<"B", "e", "f", "o", "r", "e">>, TRUE, 2, Ptr("Nested")),
                   M(<<"A", "f", "t", "e", "r">>, FALSE, 2, Val("Nested")),
                   M(<<"R", "e", "n", "d", "e", "r">>, FALSE, 2, Val("Nested")),
                   M(<<"P", "a", "n", "i", "c">>, FALSE, 1, NoType) }),
      Two |-> Struct(<<"T">>, <<Embed(Ptr("Controller")), Embed(Ptr("Controller"))>>, {}),
      Pair |-> Struct(<<"P">>, <<Embed(Val("App")), Embed(Val("Base"))>>, {}),
      Degen |-> Struct(<<"D">>,
                 <<Embed(Val("MyInt")), Embed(Val("Iface")), Embed(Ptr("Controller"))>>, {}),
      Named |-> Struct(<<"N", "a">>, <<Field(Val("Base"))>>, {}),
      Private |-> Struct(<<"P", "r">>, <<Hidden(Val("Base"))>>, {}),
      PtrEmbed |-> Struct(<<"P", "e">>, <<Embed(Ptr("Base"))>>, {}),
      PtrInt |-> Struct(<<"P", "i">>, <<Embed(Ptr("MyInt")), Embed(Ptr("Controller"))>>, {}),
      L0 |-> Struct(<<"L">>, <<Embed(Val("L1"))>>, {}),
      L1 |-> Struct(<<"L", "a">>, <<Embed(Val("L2"))>>, {}),
      L2 |-> Struct(<<"L", "b">>, <<Embed(Val("L3"))>>, {}),
      L3 |-> Struct(<<"L", "c">>,
                 <<Embed(Ptr("Controller")), Embed(Ptr("Controller")),
                   Embed(Val("D1")), Embed(Val("D2"))>>, {}),
      D1 |-> Struct(<<"D", "a">>, <<>>,
                 { M(<<"B", "E", "F", "O", "R", "E">>, FALSE, 2, Val("D1")),
                   M(<<"B", "e", "f", "o", "r", "e">>, FALSE, 2, Val("D1")),
                   M(<<"A", "f", "t", "e", "r">>, TRUE, 2, Ptr("D1")) }),
      D2 |-> Struct(<<"D", "b">>, <<>>,
                 { M(<<"B", "e", "f", "o", "r", "e">>, TRUE, 2, Ptr("D2")),
                   M(<<"F", "i", "n", "a", "l", "l", "y">>, FALSE, 2, Val("D2")),
                   M(<<"a", "f", "t", "e", "r">>, FALSE, 2, Val("D2")) }) ]

\* reflect.TypeOf(&Controller{})
controllerPtrType == Ptr("Controller")

\* reflect.Type.Kind
Kind(ref) ==
    IF ref.ptr THEN "ptr" ELSE IF ref = NoType THEN "invalid" ELSE Types[ref.t].kind

\* reflect.Type.NumField and Field(i), i counted from 0 as in Go
NumField(t) == Len(Types[t].fields)
TypeField(t, i) == Types[t].fields[i + 1]

\* ------------------------------------------------------------ method sets

\* The methods selectable on a value of type ref, each with the depth of the
\* embedding that provides it and the fields leading there: the declared
\* methods the receiver form admits, and the methods of the embedded fields.
RECURSIVE Selectable(_, _, _)
Selectable(ref, depth, via) ==
    LET T == Types[ref.t]
        own == { [name |-> m.name, depth |-> depth, via |-> via, decl |-> ref.t,
                  numOut |-> m.numOut, out1 |-> m.out1] :
                 m \in { x \in T.methods : ref.ptr \/ ~x.recvPtr } }
        inner(i) ==
            LET f == T.fields[i]
            IN  IF ~f.anon THEN {}
                ELSE Selectable(IF f.typ.ptr THEN f.typ ELSE [ptr |-> ref.ptr, t |-> f.typ.t],
                                depth + 1, Append(via, i - 1))
    IN  own \cup UNION { inner(i) : i \in 1..Len(T.fields) }

\* The method set: of each name the shallowest declaration, when it is the
\* only one at that depth; exported names only, as reflect lists them.
MethodSet(ref) ==
    Bind(Selectable(ref, 0, <<>>), LAMBDA all :
        { m \in all :
            /\ IsUpper(m.name[1])
            /\ \A o \in all : o.name = m.name => (o.depth > m.depth \/ o = m) })

RECURSIVE SortByName(_)
SortByName(S0) ==
    Bind(S0, LAMBDA S :
        IF S = {} THEN <<>>
        ELSE Bind(CHOOSE x \in S : \A y \in S : ~StrLess(y.name, x.name),
                  LAMBDA m : <<m>> \o SortByName(S \ {m})))

\* reflect.Type.NumMethod and Method(index): the method set in name order.
Methods(ref) == SortByName(MethodSet(ref))

\* ------------------------------------------------------------ slices of int

\* The capacities the allocator's size classes give a slice of 8-byte ints.
SizeClassCaps == {1, 2, 3, 4, 6, 8, 10, 12, 14, 16}

\* The capacity append gives the array it allocates when newLen elements do
\* not fit in oldCap: double, or the needed length if that is more, rounded up
\* to a size class.
GrowCap(oldCap, newLen) ==
    LET want == IF newLen > 2 * oldCap THEN newLen ELSE 2 * oldCap
    IN  CHOOSE k \in SizeClassCaps :
            k >= want /\ \A j \in SizeClassCaps : j >= want => k <= j

\* []int{}: length 0, capacity 0, no array behind it.
EmptySlice == [arr |-> 0, len |-> 0, cap |-> 0]

\* The elements a slice header shows, read from the heap.
Read(heap, s) == [i \in 1..s.len |-> heap[s.arr][i]]

\* append(s, x): in place when the capacity allows, else into a new array.
\* The result is the heap and the slice header returned.
GoAppend(heap0, s0, x) ==
    Bind(<<heap0, s0>>, LAMBDA hs :
        LET heap == hs[1]
            s == hs[2]
        IN  IF s.len < s.cap
            THEN [heap |-> [heap EXCEPT ![s.arr][s.len + 1] = x],
                  s |-> [s EXCEPT !.len = s.len + 1]]
            ELSE [heap |-> Append(heap,
                             [i \in 1..GrowCap(s.cap, s.len + 1) |->
                                 IF i <= s.len THEN heap[s.arr][i]
                                 ELSE IF i = s.len + 1 THEN x ELSE 0]),
                  s |-> [arr |-> Len(heap) + 1, len |-> s.len + 1,
                         cap |-> GrowCap(s.cap, s.len + 1)]])

\* append([]int{}, s...): the empty slice itself when s is empty, else a copy
\* of s in a new array.
GoCopy(heap0, s0) ==
    Bind(<<heap0, s0>>, LAMBDA hs :
        LET heap == hs[1]
            s == hs[2]
        IN  IF s.len = 0 THEN [heap |-> heap, s |-> EmptySlice]
            ELSE [heap |-> Append(heap,
                             [i \in 1..GrowCap(0, s.len) |->
                                 IF i <= s.len THEN heap[s.arr][i] ELSE 0]),
                  s |-> [arr |-> Len(heap) + 1, len |-> s.len,
                         cap |-> GrowCap(0, s.len)]])

\* ------------------------------------------------------------ findControllers

\* A reflect.Value of the zero instance: its type, and whether it is a nil
\* pointer or interface.
ZeroField(t, i) ==
    [typ |-> TypeField(t, i).typ,
     isNil |-> Kind(TypeField(t, i).typ) \in {"ptr", "interface"}]

\* The body of the loop over the fields of the struct at the head of the
\* queue, for field i.
findField(st, t, node, i) ==
    IF ~TypeField(t, i).anon THEN st
    ELSE IF TypeField(t, i).typ = controllerPtrType
    THEN Bind(GoAppend(st.heap, node.index, i), LAMBDA a :
             [st EXCEPT !.heap = a.heap, !.indexes = Append(st.indexes, a.s)])
    ELSE Bind(GoCopy(st.heap, node.index), LAMBDA cp :
         Bind(GoAppend(cp.heap, cp.s, i), LAMBDA a :
             [st EXCEPT !.heap = a.heap,
                        !.queue = Append(st.queue,
                                         [val |-> ZeroField(t, i), index |-> a.s])]))

RECURSIVE findFields(_, _, _, _)
findFields(st0, t, node, i) ==
    Bind(st0, LAMBDA st :
        IF i >= NumField(t) THEN st
        ELSE findFields(findField(st, t, node, i), t, node, i + 1))

\* The loop over the queue.  Elem of a nil pointer is the zero Value, and
\* Type of the zero Value panics.
RECURSIVE findLoop(_)
findLoop(st0) ==
    Bind(st0, LAMBDA st :
        IF st.panic \/ st.queue = <<>> THEN st
        ELSE LET node == Head(st.queue)
                 isPtr == Kind(node.val.typ) = "ptr"
                 elemType == IF isPtr THEN Val(node.val.typ.t) ELSE node.val.typ
                 rest == [st EXCEPT !.queue = Tail(st.queue)]
             IN  IF isPtr /\ node.val.isNil THEN [st EXCEPT !.panic = TRUE]
                 ELSE IF Kind(elemType) # "struct" THEN findLoop(rest)
                 ELSE findLoop(findFields(rest, elemType.t, node, 0)))

\* findControllers(appControllerType): whether it panicked, and the index
\* paths as the returned slices show them once the traversal has ended.
findControllers(appControllerType) ==
    Bind(findLoop([queue |-> <<[val |-> [typ |-> Ptr(appControllerType), isNil |-> FALSE],
                                index |-> EmptySlice]>>,
                   indexes |-> <<>>, heap |-> <<>>, panic |-> FALSE]),
         LAMBDA st :
            [panic |-> st.panic,
             indexes |-> IF st.panic THEN <<>>
                         ELSE [k \in 1..Len(st.indexes) |-> Read(st.heap, st.indexes[k])]])

\* ------------------------------------------------------------ check

\* newFieldPath: the slice header is stored, not a copy of its elements.
newFieldPath(isPointer, value, fieldPath) ==
    [IsPointer |-> isPointer, FunctionCall |-> value, FieldIndexPath |-> fieldPath]

\* The switch with before appended like the others.
AddEventAllAppended(st, lower, controllerFieldPath) ==
    IF lower = sBefore
    THEN [st EXCEPT !.Before = Append(st.Before, controllerFieldPath)]
    ELSE IF lower = sAfter
    THEN [st EXCEPT !.After = Append(st.After, controllerFieldPath)]
    ELSE IF lower = sPanic
    THEN [st EXCEPT !.Panic = Append(st.Panic, controllerFieldPath)]
    ELSE IF lower = sFinally
    THEN [st EXCEPT !.Finally = Append(st.Finally, controllerFieldPath)]
    ELSE st

\* The switch on the lower-cased method name.
AddEvent(st, lower, controllerFieldPath) ==
    IF lower = sBefore
    THEN [st EXCEPT !.Before = <<controllerFieldPath>> \o st.Before]
    ELSE IF lower = sAfter
    THEN [st EXCEPT !.After = Append(st.After, controllerFieldPath)]
    ELSE IF lower = sPanic
    THEN [st EXCEPT !.Panic = Append(st.Panic, controllerFieldPath)]
    ELSE IF lower = sFinally
    THEN [st EXCEPT !.Finally = Append(st.Finally, controllerFieldPath)]
    ELSE st

\* The test without the comparison of the second result's type.
QualifiesTwoOutputs(m, checkType) == m.numOut = 2

\* The test of line 120: two results, the second of the type examined.
Qualifies(m, checkType) == m.numOut = 2 /\ m.out1 = checkType

\* The body of typeChecker's loop for the method m.
typeCheckerStep(st, checkType, fieldPath, m) ==
    IF Qualifies(m, checkType)
    THEN AddEvent(st, ToLower(m.name),
                  newFieldPath(Kind(checkType) = "ptr",
                               [recv |-> checkType, name |-> m.name, decl |-> m.decl],
                               fieldPath))
    ELSE st

RECURSIVE typeCheckerLoop(_, _, _, _, _)
typeCheckerLoop(st0, checkType, fieldPath, ms, index) ==
    Bind(st0, LAMBDA st :
        IF index >= Len(ms) THEN st
        ELSE typeCheckerLoop(typeCheckerStep(st, checkType, fieldPath, ms[index + 1]),
                             checkType, fieldPath, ms, index + 1))

\* typeChecker(checkType): every method of checkType, in index order.
typeChecker(st, checkType, fieldPath) ==
    Bind(Methods(checkType), LAMBDA ms : typeCheckerLoop(st, checkType, fieldPath, ms, 0))

\* check(theType, fieldPath): the methods of the value and of the pointer,
\* then every field of kind struct with append(fieldPath, i).
RECURSIVE check(_, _, _), checkFields(_, _, _, _)
check(st0, theType, fieldPath0) ==
    Bind(<<st0, fieldPath0>>, LAMBDA sf :
        checkFields(typeChecker(typeChecker(sf[1], Val(theType), sf[2]),
                                Ptr(theType), sf[2]),
                    theType, sf[2], 0))

checkFields(st0, theType, fieldPath, i) ==
    Bind(st0, LAMBDA st :
        IF i >= NumField(theType) THEN st
        ELSE IF Kind(TypeField(theType, i).typ) = "struct"
        THEN Bind(GoAppend(st.heap, fieldPath, i), LAMBDA a :
                 checkFields(check([st EXCEPT !.heap = a.heap],
                                   TypeField(theType, i).typ.t, a.s),
                             theType, fieldPath, i + 1))
        ELSE checkFields(st, theType, fieldPath, i + 1))

\* An entry as it reads once discovery has ended.
Settled(heap, e) == [e EXCEPT !.FieldIndexPath = Read(heap, e.FieldIndexPath)]

SettledAll(heap, es) == [k \in 1..Len(es) |-> Settled(heap, es[k])]

\* NewControllerTypeEvents(c): check from the controller's type with []int{}.
NewControllerTypeEvents(checkType) ==
    Bind(check([Before |-> <<>>, After |-> <<>>, Finally |-> <<>>, Panic |-> <<>>,
                heap |-> <<>>], checkType, EmptySlice),
         LAMBDA st :
            [Before |-> SettledAll(st.heap, st.Before),
             After |-> SettledAll(st.heap, st.After),
             Finally |-> SettledAll(st.heap, st.Finally),
             Panic |-> SettledAll(st.heap, st.Panic)])

\* ------------------------------------------------------------ Invoke

\* A reflect.Value of a live instance: its type, whether it is valid (not the
\* zero Value), addressable, and reached through an unexported field.
InvalidValue == [typ |-> NoType, valid |-> FALSE, canAddr |-> FALSE, ro |-> FALSE]

\* Value.Elem of a pointer.
ValueElem(value, nilPtr) ==
    IF nilPtr THEN InvalidValue
    ELSE [typ |-> Val(value.typ.t), valid |-> TRUE, canAddr |-> TRUE, ro |-> value.ro]

\* One turn of the loop over FieldIndexPath: the field at index of the value,
\* or of what it points to.  Field panics on the zero Value, on a value that
\* is no struct and on an index out of range.
invokeStep(w, index, nilPtr) ==
    IF w.panic THEN w
    ELSE Bind(IF Kind(w.value.typ) = "ptr" THEN ValueElem(w.value, nilPtr) ELSE w.value,
              LAMBDA base :
        IF ~base.valid \/ Kind(base.typ) # "struct" \/ index >= NumField(base.typ.t)
        THEN [panic |-> TRUE, value |-> InvalidValue]
        ELSE [panic |-> FALSE,
              value |-> [typ |-> TypeField(base.typ.t, index).typ, valid |-> TRUE,
                         canAddr |-> base.canAddr,
                         ro |-> base.ro \/ ~TypeField(base.typ.t, index).exported]])

\* The loop over FieldIndexPath.  A pointer met on the way is the root, never
\* nil, or a pointer field, nil when nilPtrs.
RECURSIVE invokeWalk(_, _, _, _)
invokeWalk(w0, path, k, nilPtrs) ==
    Bind(w0, LAMBDA w :
        IF k > Len(path) THEN w
        ELSE invokeWalk(invokeStep(w, path[k], nilPtrs /\ k > 1), path, k + 1, nilPtrs))

\* The receiver brought to the form the method takes (lines 169 to 173).
\* Addr panics on a value that is not addressable.
Normalize(fieldPath, w, nilPtr) ==
    IF w.panic THEN w
    ELSE IF fieldPath.IsPointer /\ Kind(w.value.typ) # "ptr"
    THEN IF w.value.canAddr
         THEN [w EXCEPT !.value.typ = Ptr(w.value.typ.t), !.value.canAddr = FALSE]
         ELSE [panic |-> TRUE, value |-> InvalidValue]
    ELSE IF ~fieldPath.IsPointer /\ Kind(w.value.typ) = "ptr"
    THEN [w EXCEPT !.value = ValueElem(w.value, nilPtr)]
    ELSE w

\* Invoke(value, input): whether it panicked, and the type of the receiver
\* the function was called with.  Call panics on the zero Value, on a value
\* reached through an unexported field and on a receiver of another type
\* than the function's.
Invoke(fieldPath, value, nilPtrs) ==
    Bind(Normalize(fieldPath,
                   invokeWalk([panic |-> FALSE, value |-> value],
                              fieldPath.FieldIndexPath, 1, nilPtrs),
                   nilPtrs /\ fieldPath.FieldIndexPath # <<>>),
         LAMBDA w :
            [panic |-> w.panic \/ ~w.value.valid \/ w.value.ro
                          \/ w.value.typ # fieldPath.FunctionCall.recv,
             recv |-> w.value.typ])

\* ------------------------------------------------------------ modules

\* A Module: its name and the namespace Namespace() returns for it.
appModule == [name |-> "app", namespace |-> <<"p">>]

Modules ==
    { appModule,
      [name |-> "m1", namespace |-> <<>>],
      [name |-> "m2", namespace |-> <<"a">>] }

\* The nil *Module.
NilModule == [name |-> "nil", namespace |-> <<>>]

ModuleArgs == Modules \cup {NilModule}

Namespace(m) == m.namespace

\* Module.AddController: the controller joins the module's list.
AddController(lists, m, ct) == [lists EXCEPT ![m] = Append(lists[m], ct.addr)]

\* ------------------------------------------------------------ registry

NoEvents == [Before |-> <<>>, After |-> <<>>, Finally |-> <<>>, Panic |-> <<>>]

\* The descriptor no call has built.
NoCT ==
    [addr |-> 0, ModuleSource |-> "nil", Type |-> "-", Methods |-> <<>>,
     ControllerIndexes |-> <<>>, ControllerEvents |-> NoEvents, Namespace |-> <<>>]

\* ControllerType.ShortName and Name
ShortName(ct) == ToLower(Types[ct.Type].name)
Name(ct) == ct.Namespace \o ShortName(ct)

\* The test that lets every registration through.
NotFoundAlways(reg, controllerName) == TRUE

\* The test of line 66: no entry under the controller's name yet.
NotFound(reg, controllerName) == controllerName \notin DOMAIN reg

\* The map with the short name written for every module.
StoredShortAlways(reg, ct, controllerName) ==
    [k \in DOMAIN reg \cup {controllerName, ShortName(ct)} |->
        IF k \in {controllerName, ShortName(ct)} THEN ct ELSE reg[k]]

\* The map after lines 67 to 72: the entry under the name, then for the
\* application's module the entry under the short name.
Stored(reg, ct, controllerName) ==
    Bind({controllerName} \cup
            (IF ct.ModuleSource = appModule.name THEN {ShortName(ct)} ELSE {}),
         LAMBDA keys : [k \in DOMAIN reg \cup keys |-> IF k \in keys THEN ct ELSE reg[k]])

\* What the last operation was given and what it returned.
Outcome(op, panic, module, type, name, accepted, ct, result) ==
    [op |-> op, panic |-> panic, module |-> module, type |-> type, name |-> name,
     accepted |-> accepted, ct |-> ct, result |-> result]

\* The descriptor of lines 60 to 62.
NewControllerType(addr, moduleSource, controllerType, methods, found) ==
    [addr |-> addr, ModuleSource |-> moduleSource.name,
     Type |-> controllerType, Methods |-> methods,
     ControllerIndexes |-> found.indexes,
     ControllerEvents |-> NewControllerTypeEvents(controllerType),
     Namespace |-> Namespace(moduleSource)]

\* The module that owns the controller: the application's for nil.
ModuleSource(moduleArg) == IF moduleArg = NilModule THEN appModule ELSE moduleArg

\* A panic of findControllers ends the call, and the process with it.
AddControllerType(moduleArg, controllerType, methods) ==
    /\ ~last.panic
    /\ nextAddr' = nextAddr + 1
    /\ \E found \in {findControllers(controllerType)} :
         IF found.panic
         THEN /\ last' = Outcome("add", TRUE, moduleArg.name, controllerType, <<>>,
                                 FALSE, NoCT, <<>>)
              /\ UNCHANGED <<c, controllerTypeList>>
         ELSE \E newControllerType \in
                    {NewControllerType(nextAddr + 1, ModuleSource(moduleArg),
                                       controllerType, methods, found)} :
              \E controllerName \in {Name(newControllerType)} :
                 IF NotFound(c, controllerName)
                 THEN /\ c' = Stored(c, newControllerType, controllerName)
                      /\ controllerTypeList' =
                             AddController(controllerTypeList,
                                           newControllerType.ModuleSource, newControllerType)
                      /\ last' = Outcome("add", FALSE, moduleArg.name, controllerType,
                                         controllerName, TRUE, newControllerType, <<>>)
                 ELSE /\ last' = Outcome("add", FALSE, moduleArg.name, controllerType,
                                         controllerName, FALSE, newControllerType, <<>>)
                      /\ UNCHANGED <<c, controllerTypeList>>

\* ------------------------------------------------------------ Method

NilMethod == [Name |-> <<>>, lowerName |-> <<>>, Index |-> -1]

\* The lookup that compares the name as given.
MethodExactCase(ct, name) ==
    Bind({ i \in 1..Len(ct.Methods) : ct.Methods[i].lowerName = name },
         LAMBDA hits :
            IF hits = {} THEN NilMethod
            ELSE ct.Methods[CHOOSE i \in hits : \A j \in hits : i <= j])

\* ControllerType.Method(name): the first method whose lowerName is the
\* lower-cased name, or nil.
Method(ct, name) ==
    Bind({ i \in 1..Len(ct.Methods) : ct.Methods[i].lowerName = ToLower(name) },
         LAMBDA hits :
            IF hits = {} THEN NilMethod
            ELSE ct.Methods[CHOOSE i \in hits : \A j \in hits : i <= j])

\* RegisterController's preparation of the method list: each method's
\* lowerName is its lower-cased Name.
PrepareMethods(names) ==
    [i \in 1..Len(names) |->
        [Name |-> names[i], lowerName |-> ToLower(names[i]), Index |-> i - 1]]

RegisterController(controllerType, names) ==
    AddControllerType(NilModule, controllerType, PrepareMethods(names))

MethodLookup(key, name) ==
    /\ ~last.panic
    /\ key \in DOMAIN c
    /\ last' = Outcome("method", FALSE, "nil", c[key].Type, name, FALSE, c[key],
                       Method(c[key], name))
    /\ UNCHANGED <<c, controllerTypeList, nextAddr>>

\* ------------------------------------------------------------ dispatch

\* The dispatcher's call of one hook of a registered controller on a live
\* instance: given as the pointer to it or as the addressable struct.
InvokeHook(key, bucket, k, start, nilPtrs) ==
    /\ ~last.panic
    /\ key \in DOMAIN c
    /\ k \in 1..Len(c[key].ControllerEvents[bucket])
    /\ \E r \in {Invoke(c[key].ControllerEvents[bucket][k],
                         [typ |-> IF start = "ptr" THEN Ptr(c[key].Type)
                                  ELSE Val(c[key].Type),
                          valid |-> TRUE, canAddr |-> start # "ptr", ro |-> FALSE],
                         nilPtrs)} :
         last' = Outcome("invoke", FALSE, "nil", c[key].Type, <<>>, FALSE, c[key],
                         [fieldPath |-> c[key].ControllerEvents[bucket][k],
                          bucket |-> bucket, start |-> start, nilPtrs |-> nilPtrs,
                          panic |-> r.panic, recv |-> r.recv])
    /\ UNCHANGED <<c, controllerTypeList, nextAddr>>

\* ------------------------------------------------------------ specifications

Init ==
    /\ c = [k \in {} |-> NoCT]
    /\ controllerTypeList = [m \in {x.name : x \in Modules} |-> <<>>]
    /\ nextAddr = 0
    /\ last = Outcome("init", FALSE, "nil", "-", <<>>, FALSE, NoCT, <<>>)

\* The types whose names meet in the registry: App is "Ab", Plain and Base
\* are both "B".
RegTypes == {"App", "Plain", "Base"}

\* Every struct type of the application.
RootTypes ==
    {"Plain", "App", "Base", "Nested", "Two", "Pair", "Degen", "Named", "Private",
     "PtrEmbed", "PtrInt", "L0", "L1", "L2", "L3", "D1", "D2"}

Buckets == {"Before", "After", "Panic", "Finally"}

MethodNames == {<<"A", "b">>, <<"A", "B">>, <<"B">>}

RECURSIVE SeqsUpTo(_, _)
SeqsUpTo(S, n) ==
    IF n = 0 THEN {<<>>}
    ELSE LET shorter == SeqsUpTo(S, n - 1)
         IN  shorter \cup { Append(s, x) : s \in shorter, x \in S }

\* Method lists without a repeated name, as a type declares them.
MethodLists ==
    { s \in SeqsUpTo(MethodNames, MaxMethods) :
        \A i, j \in 1..Len(s) : s[i] = s[j] => i = j }

LookupNames == SeqsUpTo({"a", "A", "b", "B"}, MaxNameLen)

\* Registration by any module.
NextReg ==
    /\ nextAddr < MaxCalls
    /\ \E m \in ModuleArgs, t \in RegTypes : AddControllerType(m, t, <<>>)

SpecReg == Init /\ [][NextReg]_vars

\* Discovery on every type, and the dispatcher's calls of the hooks found.
DiscAdd ==
    /\ nextAddr < MaxDiscCalls
    /\ \E t \in RootTypes : AddControllerType(NilModule, t, <<>>)

DiscInvoke ==
    \E key \in DOMAIN c, bucket \in Buckets, start \in {"ptr", "elem"}, nilPtrs \in BOOLEAN :
        \E k \in 1..Len(c[key].ControllerEvents[bucket]) :
            InvokeHook(key, bucket, k, start, nilPtrs)

NextDisc == DiscAdd \/ DiscInvoke

SpecDisc == Init /\ [][NextDisc]_vars

\* Registration with a method list, and method lookup.
MethAdd ==
    /\ nextAddr < MaxCalls
    /\ \E names \in MethodLists : RegisterController("App", names)

MethLookup == \E key \in DOMAIN c, s \in LookupNames : MethodLookup(key, s)

NextMeth == MethAdd \/ MethLookup

SpecMeth == Init /\ [][NextMeth]_vars

\* Every operation, on the registry after at most MaxDiscCalls registrations.
Next ==
    \/ nextAddr < MaxDiscCalls /\ (NextReg \/ DiscAdd \/ MethAdd)
    \/ DiscInvoke
    \/ MethLookup

Spec == Init /\ [][Next]_vars

\* ------------------------------------------------------------ reference notions

Reverse(s) == [i \in 1..Len(s) |-> s[Len(s) + 1 - i]]

HookNames == {sBefore, sAfter, sPanic, sFinally}

\* The lower-case name of each list of ControllerTypeEvents.
BucketName(b) ==
    CASE b = "Before" -> sBefore
      [] b = "After" -> sAfter
      [] b = "Panic" -> sPanic
      [] b = "Finally" -> sFinally

\* The hooks one form of a type contributes, in method order, with the
\* field indices that lead to the type.
OwnHooks(ref, path) ==
    LET hooks == SelectSeq(Methods(ref), LAMBDA m :
                    m.numOut = 2 /\ m.out1 = ref /\ ToLower(m.name) \in HookNames)
    IN  [k \in 1..Len(hooks) |->
            [bucket |-> ToLower(hooks[k].name), IsPointer |-> ref.ptr,
             FunctionCall |-> [recv |-> ref, name |-> hooks[k].name, decl |-> hooks[k].decl],
             FieldIndexPath |-> path]]

\* The discovery order: a type's value-form hooks, its pointer-form hooks,
\* then its struct-kind fields depth-first in declaration order.
RECURSIVE Discovery(_, _), DiscoveryFields(_, _, _)
Discovery(t, path) ==
    OwnHooks(Val(t), path) \o OwnHooks(Ptr(t), path) \o DiscoveryFields(t, path, 0)

DiscoveryFields(t, path, i) ==
    IF i >= NumField(t) THEN <<>>
    ELSE (IF Kind(TypeField(t, i).typ) = "struct"
          THEN Discovery(TypeField(t, i).typ.t, Append(path, i))
          ELSE <<>>) \o DiscoveryFields(t, path, i + 1)

\* The hooks of one list in discovery order.
Discovered(t, b) == SelectSeq(Discovery(t, <<>>), LAMBDA e : e.bucket = BucketName(b))

\* The order in which a list is to hold them.
Expected(t, b) == IF b = "Before" THEN Reverse(Discovered(t, b)) ELSE Discovered(t, b)

HookKeys(es) == [k \in 1..Len(es) |-> <<es[k].IsPointer, es[k].FunctionCall>>]

HookPaths(es) == [k \in 1..Len(es) |-> es[k].FieldIndexPath]

\* The struct types check visits from t, each with the fields leading to it.
RECURSIVE Visited(_, _)
Visited(t, path) ==
    {[t |-> t, path |-> path]} \cup
    UNION { IF Kind(TypeField(t, i).typ) = "struct"
            THEN Visited(TypeField(t, i).typ.t, Append(path, i))
            ELSE {} : i \in 0..(NumField(t) - 1) }

\* The methods that are to give an entry of the list named lower: at each
\* visited type, of each form, the methods of the method set with two results,
\* the second of that form, and that name ignoring case.
QualifyingHooks(t, lower) ==
    UNION { UNION { { [path |-> v.path, recv |-> ref, name |-> m.name] :
                      m \in { x \in MethodSet(ref) :
                                x.numOut = 2 /\ x.out1 = ref /\ ToLower(x.name) = lower } } :
                    ref \in {Val(v.t), Ptr(v.t)} } :
            v \in Visited(t, <<>>) }

\* No pointer is embedded but the pointer to Controller.
RECURSIVE ValueEmbedded(_)
ValueEmbedded(t) ==
    \A i \in 0..(NumField(t) - 1) :
        LET f == TypeField(t, i)
        IN  f.anon /\ f.typ # controllerPtrType =>
                /\ ~f.typ.ptr
                /\ Kind(f.typ) = "struct" => ValueEmbedded(f.typ.t)

\* The field-index sequences to the anonymous Controller fields reachable
\* through anonymous fields.
RECURSIVE CapabilityPaths(_, _)
CapabilityPaths(t, path) ==
    UNION { LET f == TypeField(t, i)
            IN  IF ~f.anon THEN {}
                ELSE IF f.typ = controllerPtrType THEN {Append(path, i)}
                ELSE IF Kind(f.typ) = "struct" THEN CapabilityPaths(f.typ.t, Append(path, i))
                ELSE {} : i \in 0..(NumField(t) - 1) }

Front(s) == SubSeq(s, 1, Len(s) - 1)

\* a equals b ignoring letter case.
EqualFold(a, b) ==
    /\ Len(a) = Len(b)
    /\ \A i \in 1..Len(a) : ToLowerChar(a[i]) = ToLowerChar(b[i])

AddedBy(m) == last.op = "add" /\ ~last.panic /\ last.module = m

\* ------------------------------------------------------------ claims

\* C1: a call of AddControllerType whose logical name is already a key of
\* the registry is rejected: every key keeps its descriptor, no key is added,
\* and no module's controller list grows.
C1_DuplicateRejected ==
    [][ (last'.op = "add" /\ nextAddr' = nextAddr + 1 /\ last'.name \in DOMAIN c)
            => (~last'.accepted /\ c' = c /\ controllerTypeList' = controllerTypeList) ]_vars

\* A rejected call: the name is held by a descriptor built by an earlier call.
C1_Witness ==
    /\ last.op = "add" /\ ~last.accepted /\ ~last.panic
    /\ last.name \in DOMAIN c
    /\ c[last.name].addr < last.ct.addr
    /\ c[last.name].ModuleSource # last.ct.ModuleSource

\* C2: every entry's FieldIndexPath, read after discovery, is the sequence
\* of field indices from the root type to the struct the method was found
\* on, and Invoke on an addressable instance of the root type calls the
\* stored function without error.
C2_PathsExact ==
    /\ (last.op = "add" /\ ~last.panic) =>
            \A b \in Buckets :
                HookPaths(last.ct.ControllerEvents[b]) = HookPaths(Expected(last.type, b))
    /\ last.op = "invoke" => ~last.result.panic

\* C3: Before holds the before-hooks in the reverse of the discovery order,
\* After, Panic and Finally hold theirs in discovery order; so a component's
\* Before precedes the outer type's and the outer type's After precedes the
\* component's.
C3_HookOrder ==
    (last.op = "add" /\ ~last.panic) =>
        /\ \A b \in Buckets :
               HookKeys(last.ct.ControllerEvents[b]) = HookKeys(Expected(last.type, b))
        /\ LET before == last.ct.ControllerEvents.Before
               after == last.ct.ControllerEvents.After
               outer(e) == e.FunctionCall.recv.t = last.type
           IN  /\ \A i, j \in 1..Len(before) :
                      (~outer(before[i]) /\ outer(before[j])) => i < j
               /\ \A i, j \in 1..Len(after) :
                      (outer(after[i]) /\ ~outer(after[j])) => i < j

\* An outer type and the component embedded in it both declare Before and After.
C3_Witness ==
    /\ last.op = "add" /\ ~last.panic /\ last.type = "Nested"
    /\ Len(last.ct.ControllerEvents.Before) = 2
    /\ Len(last.ct.ControllerEvents.After) = 2
    /\ last.ct.ControllerEvents.Before[1].FunctionCall.recv.t = "Base"
    /\ last.ct.ControllerEvents.After[1].FunctionCall.recv.t = "Nested"

\* C4: for a root type that embeds a pointer to a struct that embeds
\* *Controller, findControllers returns the path [index of the pointer
\* field, index of the Controller field].
C4_PointerEmbedding ==
    (last.op = "add" /\ last.type = "PtrEmbed") =>
        (~last.panic /\ last.ct.ControllerIndexes = << <<0, 0>> >>)

\* C5: for a root type built from value-embedded structs, findControllers
\* returns one path per anonymous Controller field reachable through
\* anonymous fields, each the exact field-index sequence, pairwise distinct,
\* shorter before longer, and those of one struct in declaration order.
C5_CapabilityPaths ==
    (last.op = "add" /\ ValueEmbedded(last.type)) =>
        /\ ~last.panic
        /\ LET idx == last.ct.ControllerIndexes
               want == CapabilityPaths(last.type, <<>>)
           IN  /\ { idx[k] : k \in 1..Len(idx) } = want
               /\ Len(idx) = Cardinality(want)
               /\ \A k, l \in 1..Len(idx) :
                      k < l => /\ idx[k] # idx[l]
                               /\ Len(idx[k]) <= Len(idx[l])
                               /\ Front(idx[k]) = Front(idx[l])
                                      => idx[k][Len(idx[k])] < idx[l][Len(idx[l])]

\* C6: findControllers raises no failure for any root struct type.
C6_NoFailure == last.op = "add" => ~last.panic

\* C7: Method(s) returns the first method of the list whose name equals s
\* ignoring letter case, and nil when there is none.
C7_MethodIgnoresCase ==
    last.op = "method" =>
        LET ms == last.ct.Methods
            hits == { i \in 1..Len(ms) : EqualFold(ms[i].Name, last.name) }
        IN  IF hits = {} THEN last.result = NilMethod
            ELSE last.result = ms[CHOOSE i \in hits : \A j \in hits : i <= j]

\* A lookup by a name in another case than the method's, with two methods
\* of the list matching it.
C7_Witness ==
    /\ last.op = "method"
    /\ last.result # NilMethod
    /\ last.result.Name # last.name
    /\ last.name # ToLower(last.name)
    /\ Cardinality({ i \in 1..Len(last.ct.Methods) :
                        EqualFold(last.ct.Methods[i].Name, last.name) }) = 2

\* C8, as stated: an accepted call indexes the descriptor under its qualified
\* name and, if and only if the owner is the application's module, under the
\* bare short name; a descriptor of another module is never retrievable by
\* the bare short name.
C8_ShortNameOnlyForApp ==
    (last.op = "add" /\ last.accepted) =>
        /\ last.name \in DOMAIN c
        /\ (last.module \in {"nil", "app"})
               <=> (ShortName(last.ct) \in DOMAIN c /\ c[ShortName(last.ct)] = last.ct)

\* C8, amended: an accepted call binds the qualified name to the new
\* descriptor, for the application's module (also the owner of a call with
\* the nil module) the bare short name as well, and for any other module no
\* other key: the descriptor of another module is retrievable by the bare
\* short name only when the module's namespace is empty.
C8_Indexed ==
    [][ (last'.op = "add" /\ nextAddr' = nextAddr + 1 /\ last'.accepted) =>
            LET ct == last'.ct
                isApp == last'.module \in {"nil", "app"}
                bound == { k \in DOMAIN c' : c'[k] = ct }
            IN  /\ last'.name = ct.Namespace \o ToLower(Types[ct.Type].name)
                /\ isApp => bound = {last'.name, ToLower(Types[ct.Type].name)}
                /\ ~isApp => bound = {last'.name}
                /\ (~isApp /\ ct.Namespace # <<>>)
                       => ToLower(Types[ct.Type].name) \notin bound
                /\ \A k \in DOMAIN c' \ DOMAIN c : k \in bound ]_vars

\* A module other than the application's, with the empty namespace, has
\* registered a controller: its qualified name is the bare short name.
C8_Witness ==
    /\ AddedBy("m1") /\ last.accepted
    /\ c[ShortName(last.ct)] = last.ct
    /\ \E k \in DOMAIN c : c[k].ModuleSource = "app" /\ k # Name(c[k])

\* C9: at each type visited, a method gives an entry if and only if it has
\* two results, the second of the form examined, and a hook's name ignoring
\* case; each such method gives one entry in one list, IsPointer telling the
\* form; a hook promoted from a component is recorded at the component's
\* level only.
C9_HooksExactlyQualifying ==
    (last.op = "add" /\ ~last.panic) =>
        \A b \in Buckets :
            LET es == last.ct.ControllerEvents[b]
                want == QualifyingHooks(last.type, BucketName(b))
                same(x) == { k \in 1..Len(es) : /\ es[k].FunctionCall.recv = x.recv
                                                /\ es[k].FunctionCall.name = x.name }
            IN  /\ Len(es) = Cardinality(want)
                /\ \A k \in 1..Len(es) :
                       /\ es[k].IsPointer = es[k].FunctionCall.recv.ptr
                       /\ es[k].FunctionCall.decl = es[k].FunctionCall.recv.t
                       /\ \E x \in want : k \in same(x)
                /\ \A x \in want :
                       Cardinality(same(x)) =
                           Cardinality({ y \in want : y.recv = x.recv /\ y.name = x.name })

\* The enclosing type's method set holds a hook promoted from its component,
\* and the hook is recorded once, on the component.
C9_Witness ==
    /\ last.op = "add" /\ ~last.panic /\ last.type = "Nested"
    /\ \E m \in MethodSet(Val("Nested")) :
           m.depth > 0 /\ ToLower(m.name) = sBefore /\ m.numOut = 2
    /\ Cardinality({ k \in 1..Len(last.ct.ControllerEvents.Before) :
                        last.ct.ControllerEvents.Before[k].FunctionCall.decl = "Base" }) = 1

\* C10: a registry key bound to a descriptor stays bound to that descriptor,
\* whatever the modules, namespaces and type names of the calls.
C10_KeysStayBound ==
    [][ \A k \in DOMAIN c : k \in DOMAIN c' /\ c'[k] = c[k] ]_vars

====
